---- MODULE Spec2Model ----
(***************************************************************************)
(* Recastra: the recording session (RecordingManager) together with the    *)
(* recorder utilities (setupRecordingHeartbeat, stopRecorderWithTimeout)   *)
(* and the MediaRecorder handles it drives.                                *)
(*                                                                         *)
(* The browser runs every callback to completion on one thread, so each    *)
(* API call, each event handler and each timer callback is one atomic      *)
(* action.  A promise continuation (the code after `await` in stop()) runs *)
(* as a microtask right after the task that settled the promise, hence in  *)
(* the same action.                                                        *)
(***************************************************************************)
EXTENDS Integers, Sequences, FiniteSets, TLC

(* ------------------------------ bounds --------------------------------- *)
\* MediaRecorder objects that may be constructed (start() calls that get that far)
MaxHandles == 2
\* dataavailable events with data the handles may emit in one behaviour
MaxChunks == 2
\* largest size of one chunk, in bytes
MaxSize == 1
\* unusual events in one behaviour, all kinds together: an error event of a
\* recorder, a recorder method that throws, dispose(), setMimeType(), a start()
\* without a stream or with a stream without tracks, a start() by the caller
\* while the current recorder is active or being stopped, a stop() without a
\* recording
MaxUnusual == 2
\* the updateStream() and initStream() calls made on one stream manager
MaxCalls == 2

(* ------------------------------ values --------------------------------- *)
NoStream == "null"
\* a MediaStream without tracks
EmptyStream == "s0"
Streams == {"s1", EmptyStream}
\* MockMediaRecorder.isTypeSupported
SupportedTypes == {"video/webm", "audio/webm", "audio/wav"}
MimeTypes == {"video/webm", "audio/webm", "video/x-matroska"}

\* error messages (errors.ts) and the messages built in place; an Error's
\* message is the sequence of its parts, outermost prefix first
ERR_STREAM_NOT_PROVIDED == "Stream not provided. Provide a valid MediaStream."
ERR_NOT_RECORDING == "Recording not in progress"
ERR_NO_DATA == "No data collected during recording"
ErrStopping == "Error stopping recording"
ErrStarting == "Failed to start recording"
ErrHandleThrew == "exception thrown by the MediaRecorder"
ErrUpdateFailed == "Failed to update stream"
ERR_MEDIA_TIMEOUT == "Media access timeout - user may not have granted permissions"
ErrAccessing == "Error accessing media devices"
ErrUpdating == "Error updating stream"
ErrNotGranted == "exception of getUserMedia"

\* the bytes of the n-th chunk the handles emit, of the given size
ChunkData(n, size) == [i \in 1..size |-> n]

\* what a call gives back: nothing, a container, or an Error
Ok == [kind |-> "ok", bytes |-> <<>>, type |-> "", err |-> <<>>]
Rejected(e) == [kind |-> "err", bytes |-> <<>>, type |-> "", err |-> e]
StillPending == [kind |-> "pending", bytes |-> <<>>, type |-> "", err |-> <<>>]
\* this.recordingBlob = null
NoBlob == [kind |-> "null", bytes |-> <<>>, type |-> "", err |-> <<>>]

RECURSIVE Concat(_)
\* new Blob(parts): the parts' bytes one after the other
Concat(parts) ==
  IF parts = <<>> THEN <<>> ELSE Head(parts) \o Concat(Tail(parts))

\* variant: the container holds the newest part only
BlobOfLast(parts, type) ==
  [kind |-> "blob", bytes |-> IF parts = <<>> THEN <<>> ELSE parts[Len(parts)],
   type |-> type, err |-> <<>>]

\* new Blob(chunks, { type: mimeType })
Blob(parts, type) == [kind |-> "blob", bytes |-> Concat(parts), type |-> type, err |-> <<>>]

VARIABLES
  mediaRecorder,  \* this.mediaRecorder: index into rec, 0 for null
  chunks,         \* this.chunks: the array the manager currently holds
  mimeType,       \* this.mimeType
  recordingBlob,  \* this.recordingBlob
  rec,            \* the MediaRecorder objects constructed so far, with the
                  \* closures and timers created for each
  restarts,       \* pending recovery timers, oldest first: the stream each restarts on
  stalled,        \* Date.now() - lastDataTimestamp > HEARTBEAT_STALL_MS
  nchunks,        \* dataavailable events with data emitted so far
  unusual,        \* unusual events so far
  ret,            \* what the caller was last given back: the return or the
                  \* exception of a call, or the settlement of a stop() promise
  arrived,        \* history: the non-empty data delivered to ondataavailable
                  \* since this.chunks was last replaced by a new array
  probes,         \* history: the requestData() calls of heartbeats since
                  \* lastDataTimestamp was last set: "none", "once" or "again"
  upd,            \* Recastra.handleStreamUpdate: where the running call is (pc),
                  \* the state it read, the recorder h whose stop() it awaits;
                  \* history of the last call: the recorder it started and
                  \* the chunks that had arrived in this.chunks before that
  mediaStream,    \* MediaStreamManager.stream: index into objs, 0 for null
  audioOnly,      \* MediaStreamManager.audioOnly
  objs,           \* the MediaStream objects made so far: the tracks in each
  trk,            \* the MediaStreamTrack objects made so far
  ops,            \* the updateStream() calls made so far on the stream manager
  peer            \* a second RecordingManager of the same page: the state of
                  \* its this.mediaRecorder ("null" for none), the heartbeat
                  \* interval of that recorder, whether the recorder owes a
                  \* dataavailable event, and the length of its this.chunks

\* the stream manager's part
streamVars == <<mediaStream, audioOnly, objs, trk, ops>>

vars == <<mediaRecorder, chunks, mimeType, recordingBlob, rec, restarts, stalled,
          nchunks, unusual, ret, arrived, probes, upd, streamVars, peer>>

Handles == 1..Len(rec)

\* RecordingManager.getState
getState == IF mediaRecorder = 0 THEN "inactive" ELSE rec[mediaRecorder].state

\* The caller is given `res` back by `op`. For a stop(): h is the recorder it
\* stopped, path how its promise was settled, cfg the mimeType stop() read, n
\* the length of the array stop() read and hist the history of that array,
\* both at this moment.
Outcome(op, res, h, path, cfg, n, hist) ==
  [op |-> op, res |-> res, h |-> h, path |-> path, cfg |-> cfg, n |-> n, hist |-> hist]
Returned(op, res) == Outcome(op, res, 0, "", "", 0, <<>>)

\* no handleStreamUpdate is running
NoUpdate == [pc |-> "idle", state |-> "inactive", h |-> 0, started |-> 0, kept |-> <<>>]

\* a second RecordingManager that was constructed and never started
NoPeer == [state |-> "null", hb |-> "none", flush |-> FALSE, chunks |-> 0]

\* a new RecordingManager under a new Recastra
RecordingInit ==
  /\ mediaRecorder = 0
  /\ chunks = <<>>
  /\ mimeType = "video/webm"
  /\ recordingBlob = NoBlob
  /\ rec = <<>>
  /\ restarts = <<>>
  /\ stalled = FALSE
  /\ nchunks = 0
  /\ unusual = 0
  /\ ret = Returned("new", Ok)
  /\ arrived = <<>>
  /\ probes = "none"
  /\ upd = NoUpdate
  /\ peer = NoPeer

Init ==
  /\ RecordingInit
  /\ mediaStream = 0
  /\ audioOnly = FALSE
  /\ objs = <<>>
  /\ trk = <<>>
  /\ ops = <<>>

(* ------------------------- the MediaRecorder ---------------------------- *)
\* A MediaRecorder as start() leaves it once it is constructed, the heartbeat is
\* set up and the three handlers are assigned.
\*   state     MediaRecorder.state
\*   stream    MediaRecorder.stream
\*   onerror   which closure is assigned: "start" (start()'s) or "stop"
\*             (stopRecorderWithTimeout's)
\*   onstop    likewise
\*   flush     a dataavailable event is owed for requestData() or stop()
\*   stopOwed  a stop event is owed for stop()
\*   hb        the heartbeat interval start() created for this recorder
\*   timer     the timeout stopRecorderWithTimeout created for this recorder
\*   promise   the promise of the latest stop() on this recorder
\*   type      the mimeType that stop() handed over
\*   detached  the array that stop() handed over is no longer this.chunks;
\*   snap      its content then (nothing can push to it any more)
\*   asnap     the history `arrived` of that array
\*   failed    history: "paused" when an error event of this recorder arrived
\*             while getState() was 'paused', "" otherwise
\* type, detached, snap and asnap are kept while the promise is pending only.
NewRecorder(stream) ==
  [state |-> "inactive", stream |-> stream, onerror |-> "start", onstop |-> "start",
   flush |-> FALSE, stopOwed |-> FALSE, hb |-> "live", timer |-> "none",
   promise |-> "none", type |-> "", detached |-> FALSE, snap |-> <<>>, asnap |-> <<>>,
   failed |-> ""]

\* MediaRecorder.stop(): the state is inactive at once, the last data and the
\* stop event follow as tasks
RecorderStop(r) == [r EXCEPT !.state = "inactive", !.flush = TRUE, !.stopOwed = TRUE]

\* MediaRecorder.requestData(): a dataavailable event follows as a task
RecorderRequestData(r) == [r EXCEPT !.flush = TRUE]

\* `this.chunks = []`: the promises still pending keep the array they were given
Detach(rs) ==
  [h \in DOMAIN rs |->
     IF rs[h].promise = "pending" /\ ~rs[h].detached
       THEN [rs[h] EXCEPT !.detached = TRUE, !.snap = chunks, !.asnap = arrived]
       ELSE rs[h]]

\* the array a stop() on recorder h was given, and its history
BufferOf(h) == IF rec[h].detached THEN rec[h].snap ELSE chunks
ArrivedOf(h) == IF rec[h].detached THEN rec[h].asnap ELSE arrived

\* clearTimeout / clearInterval
Clear(t) == IF t = "live" THEN "cleared" ELSE IF t = "armed" THEN "none" ELSE t

(* ----------------------------- start() --------------------------------- *)
\* validateStream
StreamMissing(stream) == stream = NoStream

\* the current recorder is active, or its stop() is pending
Busy ==
  /\ mediaRecorder # 0
  /\ rec[mediaRecorder].state # "inactive" \/ rec[mediaRecorder].promise = "pending"

\* The body of start() after validateStream, followed in the same turn by what
\* takes the started recorder to `state` ("recording": nothing, "paused": a
\* pause()). thr names the call that throws: "ctor" (new MediaRecorder),
\* "start" (mediaRecorder.start) or "none"; cost is what the call itself counts
\* as unusual.
StartThen(stream, thr, cost, state) ==
  /\ thr \in {"none", "ctor", "start"}
  /\ unusual + cost + (IF thr = "none" THEN 0 ELSE 1) <= MaxUnusual
  /\ unusual' = unusual + cost + (IF thr = "none" THEN 0 ELSE 1)
  /\ chunks' = <<>>
  /\ arrived' = <<>>
  /\ IF thr = "ctor"
       THEN /\ rec' = Detach(rec)
            /\ UNCHANGED <<mediaRecorder, stalled, probes>>
       ELSE /\ Len(rec) < MaxHandles
            /\ rec' = Append(Detach(rec),
                             [NewRecorder(stream) EXCEPT
                                !.state = IF thr = "start" THEN "inactive" ELSE state])
            /\ mediaRecorder' = Len(rec) + 1
            /\ stalled' = FALSE
            /\ probes' = "none"
  /\ UNCHANGED <<mimeType, recordingBlob, nchunks>>

\* the body of start() after validateStream
StartBody(stream, thr, cost) == StartThen(stream, thr, cost, "recording")

Start(stream) ==
  /\ upd.pc = "idle"
  /\ UNCHANGED <<upd, streamVars, peer>>
  /\ IF StreamMissing(stream)
    THEN /\ unusual < MaxUnusual
         /\ unusual' = unusual + 1
         /\ ret' = Returned("start", Rejected(<<ERR_STREAM_NOT_PROVIDED>>))
         /\ UNCHANGED <<mediaRecorder, chunks, mimeType, recordingBlob, rec, restarts,
                        stalled, nchunks, arrived, probes>>
    ELSE \E thr \in {"none", "ctor", "start"} :
           /\ StartBody(stream, thr, (IF Busy THEN 1 ELSE 0)
                                        + (IF stream = EmptyStream THEN 1 ELSE 0))
           /\ ret' = Returned("start", IF thr = "none" THEN Ok
                                       ELSE Rejected(<<ErrStarting, ErrHandleThrew>>))
           /\ UNCHANGED restarts

(* ------------------------- ondataavailable ------------------------------ *)
\* variant: the chunk is put in front
PushChunkFront(buf, data) == IF Len(data) > 0 THEN <<data>> \o buf ELSE buf

\* `if (event.data && event.data.size > 0) this.chunks.push(event.data)`
PushChunk(buf, data) == IF Len(data) > 0 THEN Append(buf, data) ELSE buf

\* Recorder h emits dataavailable with `size` bytes: while it records (the
\* timeslice) or when a flush is owed.
DataAvailable(h, size) ==
  /\ UNCHANGED <<upd, streamVars, peer>>
  /\ h \in Handles
  /\ size > 0 => nchunks < MaxChunks
  /\ rec[h].state = "recording" \/ rec[h].flush
  /\ nchunks' = IF size > 0 THEN nchunks + 1 ELSE nchunks
  /\ rec' = [rec EXCEPT ![h].flush = FALSE]
  /\ stalled' = FALSE
  /\ probes' = "none"
  /\ chunks' = PushChunk(chunks, ChunkData(nchunks + 1, size))
  /\ arrived' = IF size > 0 THEN Append(arrived, ChunkData(nchunks + 1, size)) ELSE arrived
  /\ UNCHANGED <<mediaRecorder, mimeType, recordingBlob, restarts, unusual, ret>>

(* ------------------- stop() / stopRecorderWithTimeout ------------------- *)
\* variant: the guard looks at this.mediaRecorder only, not at its state
NotRecordingNull == mediaRecorder = 0

\* the guard of stop()
NotRecording == mediaRecorder = 0 \/ rec[mediaRecorder].state = "inactive"

\* safeExecuteAsync: a rejection is thrown on with the message prefixed
SafeExecuteAsync(result, errorMessage) ==
  IF result.kind = "err" THEN Rejected(<<errorMessage>> \o result.err) ELSE result

\* variant: the container is built without looking at chunks.length
FinalizeAlways(buf, type) == Blob(buf, type)

\* `if (chunks.length > 0) resolve(new Blob(chunks, {type})) else reject(ERR_NO_DATA)`
Finalize(buf, type) ==
  IF Len(buf) > 0 THEN Blob(buf, type) ELSE Rejected(<<ERR_NO_DATA>>)

\* a callback called resolve() or reject()
Settles(result) == result.kind \in {"blob", "err"}

\* The promise of recorder r after a callback that gives `result`: resolve()
\* and reject() do nothing when it is settled already.
Settle(r, result) ==
  IF r.promise = "pending" /\ Settles(result)
    THEN [r EXCEPT !.promise = "settled", !.type = "", !.detached = FALSE,
                   !.snap = <<>>, !.asnap = <<>>]
    ELSE r

\* variant: a promise that is settled is settled again
SettlementAgain(h, result, path) ==
  IF Settles(result)
    THEN Outcome("stop", SafeExecuteAsync(result, ErrStopping), h, path, rec[h].type,
                 Len(BufferOf(h)), ArrivedOf(h))
    ELSE ret

\* what stop()'s caller is given when the promise of recorder h is settled
\* with `result` by way of `path`
Settlement(h, result, path) ==
  IF rec[h].promise = "pending" /\ Settles(result)
    THEN Outcome("stop", SafeExecuteAsync(result, ErrStopping), h, path, rec[h].type,
                 Len(BufferOf(h)), ArrivedOf(h))
    ELSE ret

\* the promise of recorder h, settled with `result`, is the one a running
\* handleStreamUpdate awaits
Awaited(h, result) ==
  upd.pc = "stopping" /\ upd.h = h /\ rec[h].promise = "pending" /\ Settles(result)

\* variant: a rejected stop() is logged and handleStreamUpdate goes on to updateFn()
AfterStopAnyway(h, result) ==
  IF Awaited(h, result) THEN [upd EXCEPT !.pc = "updating"] ELSE upd

\* handleStreamUpdate after `await this.recordingManager.stop()`: it goes on to
\* updateFn(), or the rejection ends it
AfterStop(h, result) ==
  IF Awaited(h, result)
    THEN IF result.kind = "blob" THEN [upd EXCEPT !.pc = "updating"] ELSE NoUpdate
    ELSE upd

\* updateStream() rejects because the stop() that handleStreamUpdate made on
\* recorder h was rejected by way of `path`
UpdateRejected(h, path) ==
  Outcome("updateStream", Rejected(<<ErrUpdateFailed>>), h, path, "", 0, <<>>)

\* what the caller is given when the promise of recorder h is settled: the
\* outcome of the stop() it called; when handleStreamUpdate called the stop(),
\* nothing for a container and the Error of updateStream() for a rejection
Delivered(h, result, path) ==
  IF Awaited(h, result)
    THEN IF result.kind = "err"
           THEN UpdateRejected(h, path)
           ELSE ret
    ELSE Settlement(h, result, path)

\* variant: the field is assigned whatever the promise is settled with
AwaitedAnything(h, result) ==
  IF rec[h].promise = "pending" /\ Settles(result) THEN result ELSE recordingBlob

\* `this.recordingBlob = await stopRecorderWithTimeout(...)` when the promise of
\* recorder h is settled with `result`
AwaitedBlob(h, result) ==
  IF rec[h].promise = "pending" /\ result.kind = "blob" THEN result ELSE recordingBlob

\* what stop() gives its caller at once, thr as in StopBody
StopOutcome(thr) ==
  IF thr = "none"
    THEN Outcome("stop", StillPending, mediaRecorder, "", mimeType, Len(chunks), arrived)
    ELSE Outcome("stop", SafeExecuteAsync(Rejected(<<ErrHandleThrew>>), ErrStopping),
                 mediaRecorder, "threw", mimeType, Len(chunks), arrived)

\* stop() past its guard: stopRecorderWithTimeout on this.mediaRecorder. thr
\* names the call that throws: "flush" (requestData), "stop"
\* (mediaRecorder.stop) or "none".
StopBody(thr) ==
  LET h == mediaRecorder
      given == [rec[h] EXCEPT !.promise = "pending", !.type = mimeType]
      wired == [RecorderRequestData(given) EXCEPT
                  !.timer = "armed", !.onstop = "stop", !.onerror = "stop"]
  IN /\ thr # "none" => unusual < MaxUnusual
     /\ unusual' = IF thr = "none" THEN unusual ELSE unusual + 1
     /\ rec' = [rec EXCEPT ![h] =
                  CASE thr = "flush" -> Settle(given, Rejected(<<ErrHandleThrew>>))
                    [] thr = "stop" -> Settle(wired, Rejected(<<ErrHandleThrew>>))
                    [] OTHER -> RecorderStop(wired)]
     /\ UNCHANGED <<mediaRecorder, chunks, mimeType, recordingBlob, restarts,
                    stalled, nchunks, arrived, probes>>

\* stop()
Stop ==
  /\ upd.pc = "idle"
  /\ UNCHANGED <<upd, streamVars, peer>>
  /\ IF NotRecording
       THEN /\ unusual < MaxUnusual
            /\ unusual' = unusual + 1
            /\ ret' = Returned("stop", Rejected(<<ERR_NOT_RECORDING>>))
            /\ UNCHANGED <<mediaRecorder, chunks, mimeType, recordingBlob, rec, restarts,
                           stalled, nchunks, arrived, probes>>
       ELSE \E thr \in {"none", "flush", "stop"} :
              StopBody(thr) /\ ret' = StopOutcome(thr)

\* what the callback of the stop timeout settles the promise with
OnStopTimeout(h) == Finalize(BufferOf(h), rec[h].type)

\* the stop timeout of recorder h fires
StopTimeout(h) ==
  /\ UNCHANGED <<streamVars, peer>>
  /\ h \in Handles
  /\ rec[h].timer = "armed"
  /\ rec' = [rec EXCEPT ![h] = Settle([rec[h] EXCEPT !.timer = "none"], OnStopTimeout(h))]
  /\ ret' = Delivered(h, OnStopTimeout(h), "timeout")
  /\ upd' = AfterStop(h, OnStopTimeout(h))
  /\ recordingBlob' = AwaitedBlob(h, OnStopTimeout(h))
  /\ UNCHANGED <<mediaRecorder, chunks, mimeType, restarts, stalled, nchunks, unusual,
                 arrived, probes>>

\* what the onstop handler of stopRecorderWithTimeout settles the promise with
OnStop(h) == Finalize(BufferOf(h), rec[h].type)

\* Recorder h emits stop, its last event: data still owed is never delivered.
Stopped(h) ==
  /\ UNCHANGED <<streamVars, peer>>
  /\ h \in Handles
  /\ rec[h].stopOwed
  /\ LET r == [rec[h] EXCEPT !.stopOwed = FALSE, !.flush = FALSE]
         result == OnStop(h)
     IN IF r.onstop = "start"
          THEN /\ rec' = [rec EXCEPT ![h] = [r EXCEPT !.hb = Clear(r.hb)]]
               /\ UNCHANGED <<ret, recordingBlob, upd>>
          ELSE /\ rec' = [rec EXCEPT ![h] = Settle([r EXCEPT !.timer = Clear(r.timer)], result)]
               /\ ret' = Delivered(h, result, "stopped")
               /\ upd' = AfterStop(h, result)
               /\ recordingBlob' = AwaitedBlob(h, result)
  /\ UNCHANGED <<mediaRecorder, chunks, mimeType, restarts, stalled, nchunks, unusual,
                 arrived, probes>>

(* ------------------------------ onerror --------------------------------- *)
\* variant: the handler clears the timeout and forgets to reject
OnStopErrorLost == StillPending

\* variant: the handler finalizes from the buffer as onstop does
OnStopErrorFinalized == Finalize(chunks, mimeType)

\* what the onerror handler of stopRecorderWithTimeout settles the promise with
OnStopError == Rejected(<<ErrStopping>>)

\* The recovery branch of start()'s onerror handler, taken when this.chunks is
\* not empty: rs is rec after clearInterval. It stops this.mediaRecorder (thr:
\* that throws, which is logged) and sets the recovery timer on
\* this.mediaRecorder.stream.
Recover(rs, thr) ==
  LET m == mediaRecorder
      active == m # 0 /\ rs[m].state # "inactive"
  IN /\ thr => active
     /\ rec' = IF active /\ ~thr THEN [rs EXCEPT ![m] = RecorderStop(rs[m])] ELSE rs
     /\ restarts' = IF m # 0 THEN Append(restarts, rs[m].stream) ELSE restarts

\* Recorder h emits error, before its stop event. The browser may have
\* inactivated the recorder (inact); thr: the handler's mediaRecorder.stop() throws.
RecorderError(h, inact, thr) ==
  /\ UNCHANGED <<streamVars, peer>>
  /\ h \in Handles
  /\ unusual + (IF thr THEN 2 ELSE 1) <= MaxUnusual
  /\ rec[h].state # "inactive" \/ rec[h].stopOwed
  /\ unusual' = unusual + (IF thr THEN 2 ELSE 1)
  /\ LET e == [rec[h] EXCEPT !.failed = IF getState = "paused" THEN "paused" ELSE @]
         r == IF inact THEN RecorderStop(e) ELSE e
     IN IF r.onerror = "start"
          THEN /\ IF Len(chunks) > 0
                    THEN Recover([rec EXCEPT ![h] = [r EXCEPT !.hb = Clear(r.hb)]], thr)
                    ELSE /\ ~thr
                         /\ rec' = [rec EXCEPT ![h] = [r EXCEPT !.hb = Clear(r.hb)]]
                         /\ UNCHANGED restarts
               /\ UNCHANGED <<ret, recordingBlob, upd>>
          ELSE /\ ~thr
               /\ rec' = [rec EXCEPT ![h] = Settle([r EXCEPT !.timer = Clear(r.timer)],
                                                   OnStopError)]
               /\ ret' = Delivered(h, OnStopError, "error")
               /\ upd' = AfterStop(h, OnStopError)
               /\ UNCHANGED <<restarts, recordingBlob>>
  /\ UNCHANGED <<mediaRecorder, chunks, mimeType, stalled, nchunks, arrived, probes>>

\* variant: a restart that throws is tried again
RestartRetried(thr) ==
  /\ UNCHANGED <<upd, streamVars, peer>>
  /\ restarts # <<>>
  /\ restarts' = IF thr = "none" THEN Tail(restarts) ELSE restarts
  /\ StartBody(Head(restarts), thr, 0)
  /\ UNCHANGED ret

\* variant: the restarted session is paused
RestartPaused(thr) ==
  /\ UNCHANGED <<upd, streamVars, peer>>
  /\ restarts # <<>>
  /\ restarts' = Tail(restarts)
  /\ StartThen(Head(restarts), thr, 0, "paused")
  /\ UNCHANGED ret

\* The oldest recovery timer fires: `try { this.start(currentStream) } catch { log }`,
\* thr as in StartThen
RestartWith(thr) ==
  /\ UNCHANGED <<upd, streamVars, peer>>
  /\ restarts # <<>>
  /\ restarts' = Tail(restarts)
  /\ StartBody(Head(restarts), thr, 0)
  /\ UNCHANGED ret

Restart == \E thr \in {"none", "ctor", "start"} : RestartWith(thr)

(* --------------------------- pause / resume ----------------------------- *)
\* variant: the state is not looked at
ValidRecorderStateAny(r, expectedState) == TRUE

\* validateRecorderState: passes (does not throw) iff the state is the expected one
ValidRecorderState(r, expectedState) == r.state = expectedState

Pause ==
  /\ upd.pc = "idle"
  /\ UNCHANGED <<upd, streamVars, peer>>
  /\ rec' = IF mediaRecorder # 0 /\ ValidRecorderState(rec[mediaRecorder], "recording")
              THEN [rec EXCEPT ![mediaRecorder].state = "paused"]
              ELSE rec
  /\ ret' = Returned("pause", Ok)
  /\ UNCHANGED <<mediaRecorder, chunks, mimeType, recordingBlob, restarts, stalled,
                 nchunks, unusual, arrived, probes>>

Resume ==
  /\ upd.pc = "idle"
  /\ UNCHANGED <<upd, streamVars, peer>>
  /\ rec' = IF mediaRecorder # 0 /\ ValidRecorderState(rec[mediaRecorder], "paused")
              THEN [rec EXCEPT ![mediaRecorder].state = "recording"]
              ELSE rec
  /\ ret' = Returned("resume", Ok)
  /\ UNCHANGED <<mediaRecorder, chunks, mimeType, recordingBlob, restarts, stalled,
                 nchunks, unusual, arrived, probes>>

(* ------------------------ dispose / setMimeType ------------------------- *)
Dispose ==
  /\ upd.pc = "idle"
  /\ UNCHANGED <<upd, streamVars, peer>>
  /\ unusual < MaxUnusual
  /\ unusual' = unusual + 1
  /\ mediaRecorder' = 0
  /\ chunks' = <<>>
  /\ arrived' = <<>>
  /\ rec' = Detach(rec)
  /\ recordingBlob' = NoBlob
  /\ ret' = Returned("dispose", Ok)
  /\ UNCHANGED <<mimeType, restarts, stalled, nchunks, probes>>

SetMimeType(type) ==
  /\ upd.pc = "idle"
  /\ UNCHANGED <<upd, streamVars, peer>>
  /\ unusual < MaxUnusual
  /\ unusual' = unusual + 1
  /\ mimeType' = IF type \in SupportedTypes THEN type ELSE mimeType
  /\ ret' = Returned("setMimeType", Ok)
  /\ UNCHANGED <<mediaRecorder, chunks, recordingBlob, rec, restarts, stalled, nchunks,
                 arrived, probes>>

(* ------------------------------ heartbeat ------------------------------- *)
\* one more requestData() call by a heartbeat
Probed(p) == IF p = "none" THEN "once" ELSE "again"

\* variant: the test does not look at the recorder's state
ShouldProbeAnyState(r) == stalled

\* the test of the interval callback
ShouldProbe(r) == stalled /\ r.state = "recording"

\* variant: requestData() is called outside a try block by a callback that
\* gives up its interval when the call throws
HeartbeatTickUncaught(h, thr) ==
  /\ UNCHANGED <<upd, streamVars, peer>>
  /\ h \in Handles
  /\ rec[h].hb = "live"
  /\ thr => ShouldProbe(rec[h])
  /\ rec' = IF ShouldProbe(rec[h])
              THEN [rec EXCEPT ![h] = IF thr THEN [rec[h] EXCEPT !.hb = "cleared"]
                                             ELSE RecorderRequestData(rec[h])]
              ELSE rec
  /\ probes' = IF ShouldProbe(rec[h]) THEN Probed(probes) ELSE probes
  /\ UNCHANGED <<mediaRecorder, chunks, mimeType, recordingBlob, restarts, stalled,
                 nchunks, unusual, ret, arrived>>

\* The heartbeat interval of recorder h fires; thr: requestData() throws,
\* which is logged.
HeartbeatTick(h, thr) ==
  /\ UNCHANGED <<upd, streamVars, peer>>
  /\ h \in Handles
  /\ rec[h].hb = "live"
  /\ thr => ShouldProbe(rec[h])
  /\ rec' = IF ShouldProbe(rec[h]) /\ ~thr
              THEN [rec EXCEPT ![h] = RecorderRequestData(rec[h])]
              ELSE rec
  /\ probes' = IF ShouldProbe(rec[h]) THEN Probed(probes) ELSE probes
  /\ UNCHANGED <<mediaRecorder, chunks, mimeType, recordingBlob, restarts, stalled,
                 nchunks, unusual, ret, arrived>>

\* more than HEARTBEAT_STALL_MS go by without data, with a heartbeat to see it
Stall ==
  /\ UNCHANGED <<upd, streamVars, peer>>
  /\ ~stalled
  /\ \/ \E h \in Handles : rec[h].hb = "live" /\ rec[h].state = "recording"
     \/ peer.hb = "live" /\ peer.state = "recording"
  /\ stalled' = TRUE
  /\ UNCHANGED <<mediaRecorder, chunks, mimeType, recordingBlob, rec, restarts, nchunks,
                 unusual, ret, arrived, probes>>

(* ----------------------- a second RecordingManager ---------------------- *)
\* this manager's part
ownVars == <<mediaRecorder, chunks, mimeType, recordingBlob, rec, restarts, nchunks,
             unusual, ret, arrived, upd, streamVars>>

\* The first start() of the second manager, on a stream with tracks and with
\* no call that throws: its recorder records, its heartbeat is set up and
\* setupRecordingHeartbeat sets lastDataTimestamp of the module.
PeerStart ==
  /\ peer.state = "null"
  /\ peer' = [state |-> "recording", hb |-> "live", flush |-> FALSE, chunks |-> 0]
  /\ stalled' = FALSE
  /\ probes' = "none"
  /\ UNCHANGED ownVars

\* The recorder of the second manager emits dataavailable with `size` bytes:
\* its handler calls updateLastDataReceived() and pushes to its own this.chunks.
PeerDataAvailable(size) ==
  /\ peer.state = "recording" \/ peer.flush
  /\ size > 0 => peer.chunks < MaxChunks
  /\ peer' = [peer EXCEPT !.flush = FALSE,
                          !.chunks = IF size > 0 THEN @ + 1 ELSE @]
  /\ stalled' = FALSE
  /\ probes' = "none"
  /\ UNCHANGED ownVars

\* The heartbeat interval of the second manager's recorder fires; thr as in
\* HeartbeatTick.
PeerHeartbeatTick(thr) ==
  /\ peer.hb = "live"
  /\ thr => ShouldProbe(peer)
  /\ peer' = IF ShouldProbe(peer) /\ ~thr THEN RecorderRequestData(peer) ELSE peer
  /\ probes' = IF ShouldProbe(peer) THEN Probed(probes) ELSE probes
  /\ UNCHANGED <<ownVars, stalled>>

(* ---------------------- Recastra.handleStreamUpdate --------------------- *)
\* the stream Recastra.start() hands to the recording manager
ManagedStream == "s1"

\* Recastra.updateStream up to the first await of handleStreamUpdate: the
\* state is read; a recording or paused session is stopped and the stop
\* awaited, otherwise updateFn() is under way at once.
UpdateBegin ==
  /\ upd.pc = "idle"
  /\ UNCHANGED <<streamVars, peer>>
  /\ IF getState \in {"recording", "paused"}
       THEN \E thr \in {"none", "flush", "stop"} :
              /\ StopBody(thr)
              /\ IF thr = "none"
                   THEN /\ upd' = [NoUpdate EXCEPT !.pc = "stopping", !.state = getState,
                                                        !.h = mediaRecorder]
                        /\ ret' = ret
                   ELSE /\ upd' = NoUpdate
                        /\ ret' = UpdateRejected(mediaRecorder, "threw")
       ELSE /\ upd' = [NoUpdate EXCEPT !.pc = "updating", !.state = getState]
            /\ UNCHANGED <<mediaRecorder, chunks, mimeType, recordingBlob, rec, restarts,
                           stalled, nchunks, unusual, ret, arrived, probes>>

\* updateFn() settles (MediaStreamManager.updateStream and processStreamAudio,
\* see StreamSpec) and handleStreamUpdate runs to its end: after a resolved
\* updateFn() a session that was recording is started, one that was paused is
\* started and paused.
UpdateFinish(ok) ==
  /\ upd.pc = "updating"
  /\ UNCHANGED <<streamVars, restarts, peer>>
  /\ IF ok /\ upd.state \in {"recording", "paused"}
       THEN \E thr \in {"none", "ctor", "start"} :
              /\ StartThen(ManagedStream, thr, 0, upd.state)
              /\ ret' = Returned("updateStream",
                                 IF thr = "none" THEN Ok ELSE Rejected(<<ErrUpdateFailed>>))
              /\ upd' = IF thr = "none"
                          THEN [NoUpdate EXCEPT !.started = mediaRecorder', !.kept = arrived]
                          ELSE NoUpdate
       ELSE /\ ret' = Returned("updateStream",
                               IF ok THEN Ok ELSE Rejected(<<ErrUpdateFailed>>))
            /\ upd' = NoUpdate
            /\ UNCHANGED <<mediaRecorder, chunks, mimeType, recordingBlob, rec, stalled,
                           nchunks, unusual, arrived, probes>>

(* ------------------------- MediaStreamManager --------------------------- *)
\* what a call asks for each kind: audio "none" (false or absent) or "any"
\* (true or constraints); video "none", "any" (true) or a deviceId
AudioWants == {"none", "any"}
VideoWants == {"none", "any", "cam1", "cam2"}
\* the device getUserMedia grants for a request
GrantedDevice(kind, want) ==
  IF kind = "audio" THEN "mic" ELSE IF want = "any" THEN "cam1" ELSE want

\* a MediaStreamTrack
Track(kind, dev) == [kind |-> kind, dev |-> dev, stopped |-> FALSE]

\* stream.getAudioTracks() / getVideoTracks() / getTracks(), stream 0 is null
TracksOf(s) == IF s = 0 THEN {} ELSE objs[s]
TracksOfKind(s, kind) == {t \in TracksOf(s) : trk[t].kind = kind}

\* the constraints of a getUserMedia call
Request(audio, video) == [audio |-> audio, video |-> video]

\* getDeviceId: the deviceId of a video constraint, "none" for undefined
getDeviceId(video) == IF video \in {"none", "any"} THEN "none" ELSE video

\* prepareConstraints
prepareConstraints(audio, video) ==
  IF audioOnly THEN Request("any", "none") ELSE Request(audio, video)

AudioRequestWithVideo(audio) == Request(audio, "any")

\* the request of the audio replacement: `{ audio: ..., video: false }`
AudioRequest(audio) == Request(audio, "none")

\* the request of the video replacement: `{ audio: false, video: constraints.video }`
VideoRequest(video) == Request("none", video)

\* track.stop() on every track of ts
StopTracks(tracks, ts) ==
  [t \in DOMAIN tracks |-> IF t \in ts THEN [tracks[t] EXCEPT !.stopped = TRUE] ELSE tracks[t]]

\* variant: the tracks stay in the stream
RemoveTracksLater(os, s, ts) == os

\* stream.removeTrack on every track of ts, for stream s (null: nothing)
RemoveTracks(os, s, ts) == IF s = 0 THEN os ELSE [os EXCEPT ![s] = os[s] \ ts]

AddTracksNowhere(os, s, ts) == os

\* addTracksToStream(source, target, kind): the tracks ts go into stream s
AddTracks(os, s, ts) == IF s = 0 THEN os ELSE [os EXCEPT ![s] = os[s] \cup ts]

\* the updateStream() calls that have not settled
InFlight == {i \in DOMAIN ops : ops[i].pc # "done"}

\* An updateStream() call as it starts:
\*   api     "updateStream", or "initStream" for a call of initStream()
\*   pc      "init", "audio", "video" (the getUserMedia it awaits), "delay", "done"
\*   audio, video, maintainVideo   its arguments
\*   src     this.stream when it was called, before its tracks when it was called,
\*           live those of them that had not been stopped
\*   gum     the getUserMedia calls it has made, granted the tracks they gave
\*   out     "pending", "ok" or "err"; got the stream it resolved with, err the
\*           message of the Error it rejected with
\*   late    it has settled and the getUserMedia it made has not
\*   alone   no other call has been in flight together with it
NewOp(audio, video, maintainVideo) ==
  [api |-> "updateStream", pc |-> "call", audio |-> audio, video |-> video,
   maintainVideo |-> maintainVideo,
   src |-> mediaStream, before |-> TracksOf(mediaStream),
   live |-> {t \in TracksOf(mediaStream) : ~trk[t].stopped}, gum |-> <<>>, granted |-> {},
   out |-> "pending", got |-> 0, err |-> <<>>, late |-> FALSE, alone |-> InFlight = {}]

\* the calls in flight are no longer alone when another one starts
Overlapped(opsq) ==
  [i \in DOMAIN opsq |-> IF opsq[i].pc # "done" THEN [opsq[i] EXCEPT !.alone = FALSE] ELSE opsq[i]]

\* the video tracks updateStream read at its start, and the first one's deviceId
VideoBefore(op) == {t \in op.before : trk[t].kind = "video"}
CurrentDeviceId(op) ==
  IF VideoBefore(op) = {} THEN "none"
  ELSE trk[CHOOSE t \in VideoBefore(op) : \A u \in VideoBefore(op) : t <= u].dev

\* variant: audioOnly is not looked at
VideoChangesAudioOnlyToo(op) ==
  /\ op.video # "none"
  /\ \/ VideoBefore(op) = {}
     \/ getDeviceId(op.video) # "none" /\ getDeviceId(op.video) # CurrentDeviceId(op)

\* `if (!videoTracks.length || (newDeviceId && newDeviceId !== currentDeviceId))`
VideoChanges(op) ==
  /\ op.video # "none" /\ ~audioOnly
  /\ \/ VideoBefore(op) = {}
     \/ getDeviceId(op.video) # "none" /\ getDeviceId(op.video) # CurrentDeviceId(op)

\* the tracks of one kind in stream s, given the streams os and tracks
KindIn(os, tracks, s, kind) == IF s = 0 THEN {} ELSE {t \in os[s] : tracks[t].kind = kind}

removeNoTracks(os, tracks) == [objs |-> os, trk |-> tracks]

\* removeAudioTracks(this.stream): every audio track is removed and stopped
removeAudioTracks(os, tracks) ==
  [objs |-> RemoveTracks(os, mediaStream, KindIn(os, tracks, mediaStream, "audio")),
   trk |-> StopTracks(tracks, KindIn(os, tracks, mediaStream, "audio"))]

\* removeVideoTracks(this.stream): every video track is removed and stopped
removeVideoTracks(os, tracks) ==
  [objs |-> RemoveTracks(os, mediaStream, KindIn(os, tracks, mediaStream, "video")),
   trk |-> StopTracks(tracks, KindIn(os, tracks, mediaStream, "video"))]

\* The video part of updateStream for call i of opsq, with the streams os and
\* tracks as the audio part left them: it removes the video tracks of
\* this.stream and asks for new ones, or goes on to the delay.
VideoPart(i, opsq, os, tracks) ==
  IF VideoChanges(opsq[i])
    THEN /\ objs' = removeVideoTracks(os, tracks).objs
         /\ trk' = removeVideoTracks(os, tracks).trk
         /\ ops' = [opsq EXCEPT ![i].pc = "video",
                                ![i].gum = Append(@, VideoRequest(opsq[i].video))]
    ELSE /\ objs' = os
         /\ trk' = tracks
         /\ ops' = [opsq EXCEPT ![i].pc = "delay"]

\* the recording managers' and the facade's part
recordingVars == <<mediaRecorder, chunks, mimeType, recordingBlob, rec, restarts, stalled,
                   nchunks, unusual, ret, arrived, probes, upd, peer>>

\* updateStream(constraints, maintainVideo), up to its first await
UpdateStreamCall(audio, video, maintainVideo) ==
  /\ Len(ops) < MaxCalls
  /\ UNCHANGED <<recordingVars, mediaStream, audioOnly>>
  /\ LET i == Len(ops) + 1
         op == NewOp(audio, video, maintainVideo)
         opsq == Append(Overlapped(ops), op)
     IN IF ~maintainVideo \/ mediaStream = 0
          THEN /\ trk' = StopTracks(trk, TracksOf(mediaStream))
               /\ objs' = objs
               /\ ops' = [opsq EXCEPT ![i].pc = "init",
                                      ![i].gum = <<prepareConstraints(audio, video)>>]
          ELSE IF audio # "none" /\ ~audioOnly
            THEN /\ objs' = removeAudioTracks(objs, trk).objs
                 /\ trk' = removeAudioTracks(objs, trk).trk
                 /\ ops' = [opsq EXCEPT ![i].pc = "audio", ![i].gum = <<AudioRequest(audio)>>]
            ELSE VideoPart(i, opsq, objs, trk)

\* the kinds a getUserMedia request grants tracks for
KindsOf(req) ==
  (IF req.audio # "none" THEN {"audio"} ELSE {}) \cup (IF req.video # "none" THEN {"video"} ELSE {})

\* the tracks a granted request adds to the tracks made so far: audio first
Granted(req) ==
  (IF req.audio # "none" THEN <<Track("audio", GrantedDevice("audio", req.audio))>> ELSE <<>>)
    \o (IF req.video # "none" THEN <<Track("video", GrantedDevice("video", req.video))>> ELSE <<>>)

\* The message of the Error call op rejects with when `message` is thrown
\* where it awaits: safeExecuteAsync of initStream and of updateStream each
\* put their prefix in front.
Thrown(op, message) ==
  (IF op.api = "updateStream" THEN <<ErrUpdating>> ELSE <<>>)
    \o (IF op.pc = "init" THEN <<ErrAccessing>> ELSE <<>>)
    \o <<message>>

\* initStream(constraints), up to its await: getUserMedia is called and
\* raced against the STREAM_INIT_TIMEOUT_MS timer
InitStreamCall(audio, video) ==
  /\ Len(ops) < MaxCalls
  /\ UNCHANGED <<recordingVars, mediaStream, audioOnly, objs, trk>>
  /\ ops' = Append(Overlapped(ops),
                   [NewOp(audio, video, FALSE) EXCEPT
                      !.api = "initStream", !.pc = "init",
                      !.gum = <<prepareConstraints(audio, video)>>])

\* navigator.mediaDevices.getUserMedia settles for call i: granted with a new
\* stream of new tracks, or rejected; a request for no kind is always rejected
GumSettle(i, ok) ==
  /\ i \in DOMAIN ops
  /\ ops[i].pc \in {"init", "audio", "video"}
  /\ UNCHANGED <<recordingVars, audioOnly>>
  /\ LET op == ops[i]
         req == op.gum[Len(op.gum)]
         ids == (Len(trk) + 1)..(Len(trk) + Len(Granted(req)))
         tracks == trk \o Granted(req)
         s == Len(objs) + 1
         os == Append(objs, ids)
         opsq == [ops EXCEPT ![i].granted = @ \cup ids]
     IN IF ~ok
          THEN /\ ops' = [ops EXCEPT ![i].pc = "done", ![i].out = "err",
                                     ![i].err = Thrown(op, ErrNotGranted)]
               /\ UNCHANGED <<mediaStream, objs, trk>>
          ELSE /\ KindsOf(req) # {}
               /\ CASE op.pc = "init" ->
                         /\ mediaStream' = s
                         /\ objs' = os
                         /\ trk' = tracks
                         /\ ops' = [opsq EXCEPT ![i].pc = "done", ![i].out = "ok", ![i].got = s]
                    [] op.pc = "audio" ->
                         /\ mediaStream' = mediaStream
                         /\ VideoPart(i, opsq,
                                      AddTracks(os, mediaStream, {t \in ids : tracks[t].kind = "audio"}),
                                      tracks)
                    [] op.pc = "video" ->
                         /\ mediaStream' = mediaStream
                         /\ objs' = AddTracks(os, mediaStream, {t \in ids : tracks[t].kind = "video"})
                         /\ trk' = tracks
                         /\ ops' = [opsq EXCEPT ![i].pc = "delay"]

\* The STREAM_INIT_TIMEOUT_MS timer of call i fires before getUserMedia has
\* settled: Promise.race rejects, `this.stream =` is not reached.
InitTimeout(i) ==
  /\ i \in DOMAIN ops
  /\ ops[i].pc = "init"
  /\ ops' = [ops EXCEPT ![i].pc = "done", ![i].out = "err", ![i].late = TRUE,
                        ![i].err = Thrown(ops[i], ERR_MEDIA_TIMEOUT)]
  /\ UNCHANGED <<recordingVars, mediaStream, audioOnly, objs, trk>>

\* variant: the stream of a grant that comes after the timeout is adopted
LateSettleAdopted(i, ok) ==
  /\ i \in DOMAIN ops
  /\ ops[i].late
  /\ ops' = [ops EXCEPT ![i].late = FALSE]
  /\ UNCHANGED <<recordingVars, audioOnly>>
  /\ LET req == ops[i].gum[Len(ops[i].gum)]
     IN IF ok
          THEN /\ KindsOf(req) # {}
               /\ trk' = trk \o Granted(req)
               /\ objs' = Append(objs, (Len(trk) + 1)..(Len(trk) + Len(Granted(req))))
               /\ mediaStream' = Len(objs) + 1
          ELSE UNCHANGED <<mediaStream, objs, trk>>

\* The getUserMedia of call i settles after the timeout has rejected the
\* call: the race is over, a granted stream is made and given to nobody.
LateSettle(i, ok) ==
  /\ i \in DOMAIN ops
  /\ ops[i].late
  /\ ops' = [ops EXCEPT ![i].late = FALSE]
  /\ UNCHANGED <<recordingVars, audioOnly, mediaStream>>
  /\ LET req == ops[i].gum[Len(ops[i].gum)]
     IN IF ok
          THEN /\ KindsOf(req) # {}
               /\ trk' = trk \o Granted(req)
               /\ objs' = Append(objs, (Len(trk) + 1)..(Len(trk) + Len(Granted(req))))
          ELSE UNCHANGED <<objs, trk>>

\* the TRACK_INIT_DELAY_MS timer of call i fires: it resolves with this.stream
DelayDone(i) ==
  /\ i \in DOMAIN ops
  /\ ops[i].pc = "delay"
  /\ ops' = [ops EXCEPT ![i].pc = "done", ![i].out = "ok", ![i].got = mediaStream]
  /\ UNCHANGED <<recordingVars, mediaStream, audioOnly, objs, trk>>

(* --------------------------- specification ------------------------------ *)
Next ==
  \/ \E stream \in Streams \cup {NoStream} : Start(stream)
  \/ Stop
  \/ Pause
  \/ Resume
  \/ Dispose
  \/ \E type \in MimeTypes : SetMimeType(type)
  \/ \E h \in 1..MaxHandles, size \in 0..MaxSize : DataAvailable(h, size)
  \/ \E h \in 1..MaxHandles : StopTimeout(h)
  \/ \E h \in 1..MaxHandles : Stopped(h)
  \/ \E h \in 1..MaxHandles, inact \in BOOLEAN, thr \in BOOLEAN : RecorderError(h, inact, thr)
  \/ Restart
  \/ \E h \in 1..MaxHandles, thr \in BOOLEAN : HeartbeatTick(h, thr)
  \/ Stall

Spec == Init /\ [][Next]_vars

\* The recording manager under Recastra's stream updates.
FacadeNext ==
  \/ Next
  \/ UpdateBegin
  \/ \E ok \in BOOLEAN : UpdateFinish(ok)

FacadeSpec == Init /\ [][FacadeNext]_vars

\* The stream manager alone: a MediaStreamManager whose initStream() has
\* resolved or was never called, and the updateStream() calls made on it.
\* An audioOnly manager asks for no video, so its stream has none.
StreamInit ==
  /\ RecordingInit
  /\ ops = <<>>
  /\ audioOnly \in BOOLEAN
  /\ \/ /\ trk = <<>>
        /\ objs = <<>>
        /\ mediaStream = 0
     \/ \E audio \in AudioWants, video \in {"none", "any"} :
          /\ KindsOf(prepareConstraints(audio, video)) # {}
          /\ trk = Granted(prepareConstraints(audio, video))
          /\ objs = <<1..Len(trk)>>
          /\ mediaStream = 1

StreamNext ==
  \/ \E audio \in AudioWants, video \in VideoWants, maintainVideo \in BOOLEAN :
       UpdateStreamCall(audio, video, maintainVideo)
  \/ \E audio \in AudioWants, video \in VideoWants : InitStreamCall(audio, video)
  \/ \E i \in 1..MaxCalls, ok \in BOOLEAN : GumSettle(i, ok)
  \/ \E i \in 1..MaxCalls : InitTimeout(i)
  \/ \E i \in 1..MaxCalls, ok \in BOOLEAN : LateSettle(i, ok)
  \/ \E i \in 1..MaxCalls : DelayDone(i)

StreamSpec == StreamInit /\ [][StreamNext]_vars

\* Two recording managers of one page, started and recording side by side:
\* the module of the recorder utilities, and with it lastDataTimestamp, is
\* one for both.
SessionsNext ==
  \/ \E stream \in Streams \cup {NoStream} : Start(stream)
  \/ \E h \in 1..MaxHandles, size \in 0..MaxSize : DataAvailable(h, size)
  \/ \E h \in 1..MaxHandles, thr \in BOOLEAN : HeartbeatTick(h, thr)
  \/ Stall
  \/ PeerStart
  \/ \E size \in 0..MaxSize : PeerDataAvailable(size)
  \/ \E thr \in BOOLEAN : PeerHeartbeatTick(thr)

SessionsSpec == Init /\ [][SessionsNext]_vars

(* ------------------------------- claims --------------------------------- *)
\* the caller's stop() was completed by the stop event or by the stop timeout
StopFinalized == ret.op = "stop" /\ ret.path \in {"stopped", "timeout"}

\* the Error the caller is given carries ERR_NO_DATA
IsNoData(res) == res.kind = "err" /\ res.err # <<>> /\ res.err[Len(res.err)] = ERR_NO_DATA

\* C1: a stop() that was issued is settled no later than the moment its stop
\* timeout fires, whether or not the handle ever emits its stop event: a promise
\* still pending always has its timeout armed, so that once the timeout has
\* fired (or was cleared by a handler) the promise is settled.
StopSettlesByTimeout ==
  \A h \in Handles : rec[h].promise = "pending" => rec[h].timer = "armed"

\* C1 witness: the caller's stop() was settled by the timeout while the handle
\* still owes its stop event.
StopSettledByTimeoutAlone ==
  /\ ret.op = "stop" /\ ret.path = "timeout"
  /\ rec[ret.h].stopOwed
  /\ rec[ret.h].promise = "settled" /\ rec[ret.h].timer = "none"

\* C2: when the array stop() was given is empty at finalization, by the stop
\* event or by the timeout alike, the caller gets ERR_NO_DATA; a container is
\* never built from zero chunks.
EmptyBufferGivesNoData ==
  /\ StopFinalized /\ ret.n = 0 => IsNoData(ret.res)
  /\ ret.res.kind = "blob" => ret.n > 0 /\ Len(ret.res.bytes) > 0

\* C2 witness: the timeout finalized a stop() on an empty array and the caller
\* got ERR_NO_DATA.
NoDataOnTimeout ==
  ret.op = "stop" /\ ret.path = "timeout" /\ ret.n = 0 /\ IsNoData(ret.res)

\* C3: the container a stop() returns holds the bytes of exactly the non-empty
\* chunks delivered to the array stop() was given since the start() that
\* created it, in the order they arrived, and its type is the mimeType
\* configured when stop() was called.
ContainerIsArrivedChunks ==
  ret.res.kind = "blob" =>
    /\ ret.res.bytes = Concat(ret.hist)
    /\ \A i, j \in 1..Len(ret.res.bytes) : i < j => ret.res.bytes[i] <= ret.res.bytes[j]
    /\ \A i \in 1..Len(ret.res.bytes) : \E k \in 1..Len(ret.hist) : ret.res.bytes[i] = ret.hist[k][1]
    /\ \A k \in 1..Len(ret.hist) :
         Cardinality({i \in 1..Len(ret.res.bytes) : ret.res.bytes[i] = ret.hist[k][1]})
           = Len(ret.hist[k])
    /\ ret.res.type = ret.cfg /\ ret.cfg \in SupportedTypes

\* C3 witness: the caller got a container made of two chunks.
ContainerOfTwoChunks ==
  /\ ret.op = "stop" /\ ret.res.kind = "blob"
  /\ Len(ret.hist) = 2 /\ ret.res.bytes = <<1, 2>>

\* C4 as stated: a chunk is appended only while the state is Recording; while
\* it is Paused or Inactive, the time after stop() was issued included, the
\* buffer does not change (start() and dispose() may empty it); while Recording
\* the chunks it holds are never removed or reordered.
BufferFrozenUnlessRecording ==
  [][/\ getState # "recording" => chunks' = chunks \/ chunks' = <<>>
     /\ getState = "recording" =>
          \/ chunks' = <<>>
          \/ Len(chunks') >= Len(chunks) /\ SubSeq(chunks', 1, Len(chunks)) = chunks]_vars

\* C4 amended: this.chunks changes in two ways only. A dataavailable event with
\* non-empty data appends that one chunk at the end, in whatever state the
\* session is; start(), the recovery restart and dispose() replace it by an
\* empty array. pause(), resume(), stop(), the timers and the other events
\* leave it alone, and an append never removes or reorders a chunk.
BufferChangesByAppendOrReset ==
  [][chunks' # chunks =>
       \/ /\ \E h \in 1..MaxHandles, size \in 1..MaxSize : DataAvailable(h, size)
          /\ Len(chunks') = Len(chunks) + 1
          /\ SubSeq(chunks', 1, Len(chunks)) = chunks
          /\ Len(chunks'[Len(chunks')]) > 0
       \/ /\ (\E stream \in Streams : Start(stream)) \/ Restart \/ Dispose
          /\ chunks' = <<>>]_vars

\* C4 witness: a chunk was appended after stop() was called, while the session
\* reports inactive and the stop() is still pending.
ChunkAppendedWhileInactive ==
  /\ ret.op = "stop" /\ ret.res = StillPending
  /\ mediaRecorder = ret.h /\ getState = "inactive"
  /\ ~rec[ret.h].detached /\ Len(chunks) > ret.n

\* C5 as stated: an error event of the session's recorder handled with a
\* non-empty buffer leaves exactly one recovery restart pending: one is
\* scheduled for the first error, and a second error before it ran schedules
\* no other.
OneRestartPerError ==
  [][\A h \in 1..MaxHandles, inact \in BOOLEAN, thr \in BOOLEAN :
       /\ RecorderError(h, inact, thr)
       /\ h = mediaRecorder /\ rec[h].onerror = "start" /\ Len(chunks) > 0
       => Len(restarts') = 1]_vars

\* C6 as stated: the chunks held before a recovery restart are still in the
\* buffer, at the front, once the restart has made the session record again.
RecoveryKeepsChunks ==
  [][Restart /\ getState' = "recording" =>
       Len(chunks') >= Len(chunks) /\ SubSeq(chunks', 1, Len(chunks)) = chunks]_vars

\* C7 as stated: an error event handled with an empty buffer schedules no
\* restart and the caller is given an Error for it.
ErrorOnEmptyBufferSurfaces ==
  [][\A h \in 1..MaxHandles, inact \in BOOLEAN :
       RecorderError(h, inact, FALSE) /\ Len(chunks) = 0
         => restarts' = restarts /\ ret' # ret /\ ret'.res.kind = "err"]_vars

\* C8: stop() while getState() is inactive (never started, stopped already,
\* disposed) rejects with ERR_NOT_RECORDING, calls nothing on any recorder and
\* leaves the state, the buffer and the container of an earlier stop() as they are.
StopWhenInactiveFails ==
  [][Stop /\ getState = "inactive" =>
       /\ ret' = Returned("stop", Rejected(<<ERR_NOT_RECORDING>>))
       /\ UNCHANGED <<mediaRecorder, rec, chunks, recordingBlob, restarts, mimeType>>]_vars

\* C8 witness: stop() was rejected with ERR_NOT_RECORDING on a session whose
\* earlier stop() had returned a container, which it still holds.
StopRejectedAfterStop ==
  /\ ret = Returned("stop", Rejected(<<ERR_NOT_RECORDING>>))
  /\ mediaRecorder # 0 /\ rec[mediaRecorder].promise = "settled"
  /\ recordingBlob.kind = "blob"

\* C9 as stated: once the caller's stop() has completed, with a container or
\* with ERR_NO_DATA, by the stop event or by the timeout, getState() is inactive.
StopCompletedMeansInactive == StopFinalized => getState = "inactive"

\* C10: pause() changes the state from recording to paused and nothing else,
\* resume() from paused to recording and nothing else; in any other state
\* either call returns without an exception and leaves the recorders, the state
\* and the buffer as they are.
PauseResumeOnlyToggle ==
  [][/\ Pause =>
          /\ ret'.res = Ok
          /\ UNCHANGED <<mediaRecorder, chunks, recordingBlob, restarts>>
          /\ IF getState = "recording"
               THEN rec' = [rec EXCEPT ![mediaRecorder].state = "paused"]
               ELSE rec' = rec
     /\ Resume =>
          /\ ret'.res = Ok
          /\ UNCHANGED <<mediaRecorder, chunks, recordingBlob, restarts>>
          /\ IF getState = "paused"
               THEN rec' = [rec EXCEPT ![mediaRecorder].state = "recording"]
               ELSE rec' = rec]_vars

\* C10 witness: pause() returned normally on a session that had been stopped
\* and is inactive.
PauseIgnoredWhenInactive ==
  /\ ret = Returned("pause", Ok)
  /\ unusual = 0
  /\ mediaRecorder # 0 /\ getState = "inactive"

\* C11 as stated: a heartbeat tick calls requestData() only while the session
\* state, getState(), is recording; never while it is paused or inactive.
ProbeOnlyWhileRecording ==
  [][\A h \in 1..MaxHandles, thr \in BOOLEAN :
       HeartbeatTick(h, thr) /\ ShouldProbe(rec[h]) => getState = "recording"]_vars

\* C12 as stated: a stall (no dataavailable event for more than
\* HEARTBEAT_STALL_MS) while the session records gets exactly one requestData()
\* from the heartbeat: never a second one before the next dataavailable event,
\* and one has been made by the time that event ends the stall.
OneProbePerStall ==
  [][/\ probes' # "again"
     /\ (\E h \in 1..MaxHandles, size \in 0..MaxSize : DataAvailable(h, size))
          /\ stalled /\ getState = "recording"
        => probes = "once"]_vars

\* C13 as stated: start() without a stream, or with a stream that has no
\* tracks, throws ERR_STREAM_NOT_PROVIDED and constructs no recorder, sets up no
\* heartbeat and leaves the state and the buffer as they are.
StartWithoutSourceFails ==
  [][\A stream \in {NoStream, EmptyStream} :
       Start(stream) =>
         /\ ret' = Returned("start", Rejected(<<ERR_STREAM_NOT_PROVIDED>>))
         /\ UNCHANGED <<mediaRecorder, rec, chunks>>]_vars

\* call i of updateStream settles in this step, and no other call ran with it
SettlesAlone(i) ==
  /\ i \in DOMAIN ops
  /\ ops[i].pc # "done"
  /\ ops'[i].pc = "done"
  /\ ops'[i].alone

\* call i kept the video of a stream that had some and asked for new audio only
AudioOnlySwap(op) ==
  /\ op.maintainVideo
  /\ VideoBefore(op) # {}
  /\ op.audio # "none"
  /\ getDeviceId(op.video) = "none"

\* C14: an updateStream() that asks for new audio only, on a stream that has a
\* video track, makes exactly one getUserMedia call, for audio with video
\* disabled, and when it settles the stream's video tracks are the very
\* tracks it had before the call, none of them stopped.
AudioSwapKeepsVideo ==
  [][\A i \in 1..MaxCalls :
       SettlesAlone(i) /\ AudioOnlySwap(ops[i]) =>
         /\ Len(ops'[i].gum) = 1
         /\ ops'[i].gum[1].audio # "none"
         /\ ops'[i].gum[1].video = "none"
         /\ mediaStream' = ops[i].src
         /\ KindIn(objs', trk', mediaStream', "video") = VideoBefore(ops[i])
         /\ \A t \in VideoBefore(ops[i]) \cap ops[i].live : ~trk'[t].stopped]_vars

\* an audio-only swap on a stream with video has resolved with new audio
AudioSwappedBesideVideo ==
  \E i \in DOMAIN ops :
    /\ ops[i].pc = "done" /\ ops[i].out = "ok" /\ ops[i].alone
    /\ AudioOnlySwap(ops[i])
    /\ \E t \in ops[i].granted : trk[t].kind = "audio" /\ t \in TracksOf(mediaStream)
    /\ VideoBefore(ops[i]) \subseteq TracksOf(mediaStream)
    /\ VideoBefore(ops[i]) \subseteq ops[i].live

\* C15: an updateStream() that swaps tracks in place (maintainVideo, a stream
\* is held) resolves with the very stream object the manager held before the
\* call, the manager still holds that object, and every track the call
\* acquired is attached to it.
SwapKeepsStreamObject ==
  [][\A i \in 1..MaxCalls :
       /\ SettlesAlone(i)
       /\ ops[i].maintainVideo /\ ops[i].src # 0
       /\ ops'[i].out = "ok"
       => /\ ops'[i].got = ops[i].src
          /\ mediaStream' = ops[i].src
          /\ ops'[i].granted \subseteq objs'[ops[i].src]]_vars

\* an in-place swap has resolved after acquiring both an audio and a video track
SwappedBothInPlace ==
  \E i \in DOMAIN ops :
    /\ ops[i].pc = "done" /\ ops[i].out = "ok" /\ ops[i].alone
    /\ ops[i].maintainVideo /\ ops[i].src # 0
    /\ ops[i].got = ops[i].src
    /\ {trk[t].kind : t \in ops[i].granted} = {"audio", "video"}
    /\ ops[i].granted \subseteq TracksOf(ops[i].src)

\* C16: an updateStream() that asks for new audio only, on a stream that never
\* had a video track (of a manager that is not audioOnly), replaces the whole stream: when it resolves, every
\* track the stream had is stopped, one getUserMedia call was made, and the
\* manager holds a new stream object.
AudioSwapWithoutVideoReplacesStream ==
  [][SettlesAlone(1) /\ ops'[1].out = "ok"
       /\ ops[1].maintainVideo /\ ops[1].src # 0 /\ ~audioOnly
       /\ VideoBefore(ops[1]) = {}
       /\ ops[1].audio # "none" /\ ops[1].video = "none"
     => /\ mediaStream' # ops[1].src
        /\ ops'[1].got = mediaStream'
        /\ Len(ops'[1].gum) = 1
        /\ \A t \in ops[1].before : trk'[t].stopped]_vars

\* the tracks of one kind that call op found in the stream when it started
BeforeOfKind(op, kind) == {t \in op.before : trk[t].kind = kind}

\* call op has asked getUserMedia for tracks of this kind
Asked(op, kind) == \E n \in DOMAIN op.gum : kind \in KindsOf(op.gum[n])

\* C17: when getUserMedia rejects during an in-place swap, updateStream()
\* rejects, the stream has no track of the kind that was being replaced, and
\* for a kind the call did not ask for the stream has the tracks it had
\* before the call, none of them stopped by the call.
FailedSwapLosesOnlyItsKind ==
  [][\A i \in 1..MaxCalls :
       GumSettle(i, FALSE) /\ ops[i].alone /\ ops[i].pc \in {"audio", "video"} =>
         /\ ops'[i].pc = "done" /\ ops'[i].out = "err"
         /\ mediaStream' = ops[i].src
         /\ KindIn(objs', trk', mediaStream', ops[i].pc) = {}
         /\ \A kind \in {"audio", "video"} :
              ~Asked(ops[i], kind) =>
                /\ KindIn(objs', trk', mediaStream', kind) = BeforeOfKind(ops[i], kind)
                /\ \A t \in BeforeOfKind(ops[i], kind) \cap ops[i].live : ~trk'[t].stopped]_vars

\* an audio swap on a stream with live audio and video was rejected: the
\* audio is gone, the video is there
AudioSwapRejected ==
  \E i \in DOMAIN ops :
    /\ ops[i].pc = "done" /\ ops[i].out = "err" /\ ops[i].alone
    /\ ops[i].maintainVideo /\ ops[i].src # 0
    /\ ops[i].gum = <<AudioRequest(ops[i].audio)>>
    /\ BeforeOfKind(ops[i], "audio") \cap ops[i].live # {}
    /\ BeforeOfKind(ops[i], "video") \cap ops[i].live # {}
    /\ TracksOfKind(mediaStream, "audio") = {}
    /\ TracksOfKind(mediaStream, "video") = BeforeOfKind(ops[i], "video")

\* C18: when an updateStream() through Recastra completes successfully, the
\* recording state is the one handleStreamUpdate read at its start: recording,
\* paused or inactive.
UpdateKeepsRecordingState ==
  [][(\E ok \in BOOLEAN : UpdateFinish(ok)) /\ ret'.op = "updateStream" /\ ret'.res = Ok
       => getState' = upd.state]_vars

\* C19: the container given by the stop() that follows a successful
\* updateStream() on a recording session (the stop() of the recorder the
\* update started) holds every chunk that was recorded before the update.
UpdateKeepsEarlierChunks ==
  ret.op = "stop" /\ ret.res.kind = "blob" /\ ret.h = upd.started =>
    \A k \in 1..Len(upd.kept) :
      \E i \in 1..Len(ret.res.bytes) : ret.res.bytes[i] = upd.kept[k][1]

\* C20: once dispose() has returned, and until the caller calls something
\* else, no heartbeat interval, stop timeout or recovery timer is left, no
\* heartbeat probes a recorder, no recovery timer restarts the recording, and
\* nothing is appended to this.chunks.
DisposeCancelsEverything ==
  [][ret.op = "dispose" /\ ret'.op = "dispose" =>
       /\ restarts = <<>>
       /\ \A h \in Handles : rec[h].hb # "live" /\ rec[h].timer # "armed"
       /\ ~Restart
       /\ \A h \in 1..MaxHandles, thr \in BOOLEAN :
            ~(HeartbeatTick(h, thr) /\ ShouldProbe(rec[h]))
       /\ chunks' = chunks]_vars

\* C21: when the stop timeout fires while the promise of stop() is pending,
\* the caller is given the container of exactly the chunks the array holds at
\* that moment (no data: ERR_NO_DATA); after that neither the stop event nor
\* a dataavailable event of that recorder changes what the caller was given
\* or this.recordingBlob.
TimeoutSettlesOnce ==
  [][\A h \in 1..MaxHandles :
       /\ StopTimeout(h) /\ rec[h].promise = "pending" =>
            /\ ret'.op = "stop" /\ ret'.h = h /\ ret'.path = "timeout"
            /\ IF BufferOf(h) # <<>>
                 THEN /\ ret'.res.kind = "blob"
                      /\ ret'.res.bytes = Concat(BufferOf(h))
                      /\ recordingBlob' = ret'.res
                 ELSE IsNoData(ret'.res) /\ recordingBlob' = recordingBlob
       /\ /\ ret.op = "stop" /\ ret.path = "timeout" /\ ret.h = h
          /\ Stopped(h) \/ \E size \in 0..MaxSize : DataAvailable(h, size)
          => ret' = ret /\ recordingBlob' = recordingBlob]_vars

\* the timeout gave a container of one chunk; since then another chunk has
\* arrived in the same array and the recorder has emitted its stop event
StoppedAfterTimeout ==
  /\ ret.op = "stop" /\ ret.path = "timeout" /\ ret.res.kind = "blob"
  /\ ~rec[ret.h].stopOwed
  /\ ret.n = 1 /\ Len(chunks) = 2 /\ arrived[1] = ret.hist[1]
  /\ recordingBlob = ret.res

\* C22: once stop() has given its caller a container, the heartbeat interval
\* that start() set up for the stopped recorder is cleared.
StopCancelsHeartbeat ==
  ret.op = "stop" /\ ret.res.kind = "blob" => rec[ret.h].hb # "live"

\* C23: at any time at most one heartbeat interval of the session is live:
\* start() clears the interval an earlier start() set up.
OneLiveHeartbeat ==
  Cardinality({h \in Handles : rec[h].hb = "live"}) <= 1

\* C24: at any time at most one MediaRecorder made by the session is
\* recording or paused: start() stops the active one before it makes another.
OneActiveRecorder ==
  Cardinality({h \in Handles : rec[h].state \in {"recording", "paused"}}) <= 1

\* C25: a start() that returns normally leaves the session recording with an
\* empty this.chunks, and while the recorder it made is recording no chunk of
\* a recorder made by an earlier start() is appended to this.chunks (so none
\* gets into the container of the new recording).
StartBeginsAfresh ==
  [][/\ \A stream \in Streams :
          Start(stream) /\ ret'.res = Ok => getState' = "recording" /\ chunks' = <<>>
     /\ \A h \in 1..MaxHandles, size \in 1..MaxSize :
          /\ DataAvailable(h, size)
          /\ mediaRecorder # 0 /\ h # mediaRecorder /\ getState = "recording"
          => chunks' = chunks]_vars

\* C26: when a recorder emits error, the heartbeat interval set up for that
\* recorder is cleared by the handler, whether this.chunks is empty or not.
ErrorCancelsHeartbeat ==
  [][\A h \in 1..MaxHandles, inact \in BOOLEAN, thr \in BOOLEAN :
       RecorderError(h, inact, thr) => rec'[h].hb # "live"]_vars

StopCallsRecorderStop ==
  [][Stop /\ ~NotRecording =>
       \/ /\ StopBody("none")
          /\ rec'[mediaRecorder].state = "inactive" /\ rec'[mediaRecorder].stopOwed
          /\ ret'.res = StillPending
       \/ /\ StopBody("stop")
          /\ ret'.res = Rejected(<<ErrStopping, ErrHandleThrew>>)
          /\ recordingBlob' = recordingBlob]_vars

\* C29: a requestData that throws at the beginning of stop() is swallowed:
\* stop() still calls mediaRecorder.stop(), so the recorder is inactive and
\* the result is still to be settled from the buffer.
StopSwallowsFlushError ==
  [][Stop /\ ~NotRecording /\ StopBody("flush") =>
       /\ rec'[mediaRecorder].state = "inactive"
       /\ ret'.res = StillPending]_vars

\* C30: a heartbeat tick whose requestData throws changes nothing of the
\* session: the state, the chunk buffer, what the caller was given and the
\* pending restarts are as before, every recorder is as before, and the
\* heartbeat interval is still live.
ThrowingProbeIsSwallowed ==
  [][\A h \in 1..MaxHandles :
       HeartbeatTick(h, TRUE) =>
         /\ getState' = getState
         /\ chunks' = chunks
         /\ recordingBlob' = recordingBlob
         /\ ret' = ret
         /\ restarts' = restarts
         /\ rec' = rec
         /\ rec'[h].hb = "live"]_vars

\* the only recorder ever made is recording, was never stopped, has been
\* probed since the last data and owes no data: the probe threw
ProbeThrew ==
  /\ Handles = {1} /\ mediaRecorder = 1
  /\ probes # "none" /\ stalled
  /\ rec[1].state = "recording" /\ rec[1].hb = "live"
  /\ rec[1].promise = "none" /\ ~rec[1].flush

\* C31: from the moment stop() is issued on a recorder until its promise is
\* settled, a tick of that recorder's heartbeat finds its test false and calls
\* no requestData on it; start() runs to its end in one callback, so that no
\* tick falls inside it.
NoProbeWhileStopping ==
  \A h \in Handles :
    rec[h].promise = "pending" /\ rec[h].hb = "live" => ~ShouldProbe(rec[h])

\* C31 witness: a stall is there to be seen by the live heartbeat of a
\* recorder whose stop() is pending
StallSeenWhileStopping ==
  \E h \in Handles :
    /\ rec[h].promise = "pending" /\ rec[h].hb = "live" /\ rec[h].stopOwed
    /\ stalled
    /\ ret.op = "stop" /\ ret.res = StillPending /\ ret.h = h

\* this manager's heartbeat of recorder h detects a stall and probes
Detects(h) == rec[h].hb = "live" /\ ShouldProbe(rec[h])

\* C32: a chunk arriving in the second manager, or its start(), never changes
\* whether a heartbeat of this manager detects a stall and probes its recorder.
StallDetectionIsOwn ==
  [][PeerStart \/ (\E size \in 0..MaxSize : PeerDataAvailable(size)) =>
       \A h \in Handles : Detects(h)' = Detects(h)]_vars

\* call i asks getUserMedia in this step for the replacement of one kind of
\* track of the stream it keeps
AsksReplacement(i, kind) ==
  /\ i \in DOMAIN ops'
  /\ ops'[i].pc = kind
  /\ i \in DOMAIN ops => ops[i].pc # kind

\* C33: in an updateStream() call that runs alone, when the replacement of a
\* kind is asked for the stream holds no track of that kind and every track
\* of that kind it had when the call began is stopped; and the stream never
\* holds a track of a kind from before the call together with one the call
\* was granted.
ReleasedBeforeAcquired ==
  [][\A i \in 1..MaxCalls : \A kind \in {"audio", "video"} :
       i \in DOMAIN ops' /\ ops'[i].alone =>
         /\ AsksReplacement(i, kind) =>
              /\ KindIn(objs', trk', mediaStream', kind) = {}
              /\ \A t \in ops'[i].before : trk'[t].kind = kind => trk'[t].stopped
         /\ ~ /\ KindIn(objs', trk', mediaStream', kind) \cap ops'[i].before # {}
              /\ KindIn(objs', trk', mediaStream', kind) \cap ops'[i].granted # {}]_vars

\* C33 witness: a call that runs alone has had its audio replaced in place and
\* waits for the replacement of the video: the stream it keeps holds the new
\* audio track and no video track, and the old tracks are stopped
AudioAttachedVideoAsked ==
  /\ Len(ops) = 1 /\ ops[1].alone /\ ops[1].pc = "video"
  /\ Len(ops[1].gum) = 2
  /\ mediaStream = ops[1].src
  /\ KindIn(objs, trk, mediaStream, "video") = {}
  /\ KindIn(objs, trk, mediaStream, "audio") # {}
  /\ KindIn(objs, trk, mediaStream, "audio") \subseteq ops[1].granted
  /\ BeforeOfKind(ops[1], "audio") # {} /\ BeforeOfKind(ops[1], "video") # {}
  /\ \A t \in ops[1].before : trk[t].stopped

\* the Error carries ERR_MEDIA_TIMEOUT
IsTimeout(err) == err # <<>> /\ err[Len(err)] = ERR_MEDIA_TIMEOUT

\* C34: when the timer of an initial acquisition fires before getUserMedia
\* has settled, the call rejects with ERR_MEDIA_TIMEOUT and this.stream and
\* its tracks are as before; a grant that comes later changes neither
\* this.stream nor any call's outcome; and a call rejected with
\* ERR_MEDIA_TIMEOUT was awaiting the one getUserMedia of initStream, never
\* the replacement of an in-place swap.
InitTimesOutUnadopted ==
  [][\A i \in 1..MaxCalls :
       /\ InitTimeout(i) =>
            /\ ops'[i].pc = "done" /\ ops'[i].out = "err" /\ IsTimeout(ops'[i].err)
            /\ mediaStream' = mediaStream /\ objs' = objs /\ trk' = trk
       /\ (\E ok \in BOOLEAN : LateSettle(i, ok)) =>
            /\ mediaStream' = mediaStream
            /\ TracksOf(mediaStream)' = TracksOf(mediaStream)
            /\ \A j \in DOMAIN ops :
                 ops'[j].out = ops[j].out /\ ops'[j].got = ops[j].got /\ ops'[j].err = ops[j].err
       /\ i \in DOMAIN ops' /\ IsTimeout(ops'[i].err) =>
            /\ ops'[i].gum = <<prepareConstraints(ops'[i].audio, ops'[i].video)>>
            /\ ops'[i].api = "initStream" \/ ~ops'[i].maintainVideo \/ ops'[i].src = 0]_vars

\* C34 witness: an initStream() on a manager that has a stream was rejected
\* by the timeout, the grant came afterwards, and this.stream is the stream
\* it was.
LateGrantDropped ==
  /\ Len(ops) = 1 /\ ops[1].api = "initStream"
  /\ ops[1].out = "err" /\ IsTimeout(ops[1].err) /\ ~ops[1].late
  /\ ops[1].src # 0 /\ mediaStream = ops[1].src
  /\ Len(objs) = 2 /\ objs[2] # {}

\* C35: an error event of a recorder whose stop() is pending rejects that
\* stop() with 'Error stopping recording', whatever the buffer holds: the
\* caller gets no container, recordingBlob and the recovery timers are as
\* before, the recorder is inactive and the session's state is as before.
ErrorWhileStoppingFails ==
  [][\A h \in 1..MaxHandles : \A inact \in BOOLEAN :
       RecorderError(h, inact, FALSE) /\ rec[h].promise = "pending" /\ upd.pc = "idle" =>
         /\ ret'.op = "stop" /\ ret'.h = h
         /\ ret'.res = Rejected(<<ErrStopping, ErrStopping>>)
         /\ recordingBlob' = recordingBlob
         /\ restarts' = restarts
         /\ rec'[h].state = "inactive" /\ rec'[h].promise = "settled"
         /\ mediaRecorder' = mediaRecorder /\ getState' = getState]_vars

\* C35 witness: the caller's stop() on a buffer with a chunk was rejected by
\* the error event; no recovery timer is set and the session is inactive
StopRejectedByError ==
  /\ ret.op = "stop" /\ ret.path = "error" /\ ret.res.kind = "err"
  /\ ret.n > 0 /\ chunks # <<>>
  /\ restarts = <<>>
  /\ mediaRecorder = ret.h /\ getState = "inactive"
  /\ recordingBlob = NoBlob

\* call op replaces the audio of the stream it keeps
SwapsAudioInPlace(op) ==
  op.api = "updateStream" /\ op.maintainVideo /\ op.src # 0 /\ op.audio # "none" /\ ~audioOnly

\* the calls whose getUserMedia gave an audio track that this.stream holds
\* and that is not stopped
LiveAudioFrom ==
  {i \in DOMAIN ops :
     \E t \in KindIn(objs, trk, mediaStream, "audio") : t \in ops[i].granted /\ ~trk[t].stopped}

\* C36: when two updateStream() calls that both replace the audio of the same
\* stream are in flight together, the stream never holds live audio tracks
\* of more than one getUserMedia call.
OneAudioAcquisitionAtATime ==
  /\ Len(ops) = 2
  /\ SwapsAudioInPlace(ops[1]) /\ SwapsAudioInPlace(ops[2])
  /\ ops[1].src = ops[2].src /\ ~ops[2].alone
  => Cardinality(LiveAudioFrom) <= 1

\* C37: a recovery restart in which nothing throws leaves the session
\* recording on the new recorder, whatever its state was when the error
\* arrived.
RecoveryRestartsRecording ==
  [][RestartWith("none") =>
       /\ mediaRecorder' = Len(rec) + 1
       /\ getState' = "recording"]_vars

\* C37 witness: the caller last paused the session, the error of its recorder
\* arrived while it was paused, and the restart has left the session
\* recording on a second recorder
PausedSessionRestarted ==
  /\ ret.op = "pause"
  /\ Len(rec) = 2 /\ mediaRecorder = 2
  /\ rec[1].failed = "paused" /\ rec[1].state = "inactive"
  /\ rec[2].state = "recording" /\ rec[2].failed = ""
  /\ restarts = <<>>

\* handleStreamUpdate ends in this step without calling updateFn():
\* updateStream() rejects, the stream manager is untouched, and no recorder
\* is made or starts to record
UpdateAborted ==
  /\ upd'.pc = "idle"
  /\ ret'.op = "updateStream" /\ ret'.res = Rejected(<<ErrUpdateFailed>>)
  /\ UNCHANGED streamVars
  /\ mediaRecorder' = mediaRecorder /\ Len(rec') = Len(rec)
  /\ \A h \in Handles : rec'[h].state = "recording" => rec[h].state = "recording"

\* C38: when the stop() that handleStreamUpdate makes on a recording or
\* paused session is rejected (it throws at once, or its promise is rejected
\* by the stop event or the timeout on an empty buffer, or by an error event),
\* updateFn() is not called, updateStream() rejects and nothing is started.
FailedStopAbortsUpdate ==
  [][/\ upd.pc = "idle" /\ getState \in {"recording", "paused"}
        /\ UpdateBegin /\ ~StopBody("none")
          => UpdateAborted
     /\ \A h \in 1..MaxHandles :
          /\ Awaited(h, OnStop(h)) /\ OnStop(h).kind = "err" /\ Stopped(h)
               => UpdateAborted
          /\ Awaited(h, OnStopTimeout(h)) /\ OnStopTimeout(h).kind = "err" /\ StopTimeout(h)
               => UpdateAborted
          /\ Awaited(h, OnStopError) /\ (\E inact \in BOOLEAN : RecorderError(h, inact, FALSE))
               => UpdateAborted]_vars

\* C38 witness: updateStream() on a session that was recording without a
\* chunk was rejected when the stop event found the buffer empty; the session
\* is inactive on the recorder it had
UpdateRejectedForNoData ==
  /\ ret.op = "updateStream" /\ ret.res.kind = "err" /\ ret.path = "stopped"
  /\ upd.pc = "idle"
  /\ mediaRecorder = ret.h /\ getState = "inactive"
  /\ chunks = <<>> /\ Len(rec) = 1

\* C39: recordingBlob changes only when the promise of a stop() is resolved
\* with a container, and is then that container, or in dispose(), which sets
\* it to null; and a stop() that gives its caller a container has assigned
\* that container to recordingBlob.
BlobChangesOnlyOnStopOrDispose ==
  [][/\ recordingBlob' # recordingBlob =>
          \/ Dispose /\ recordingBlob' = NoBlob
          \/ \E h \in Handles :
               /\ rec[h].promise = "pending" /\ rec'[h].promise = "settled"
               /\ Stopped(h) \/ StopTimeout(h)
               /\ recordingBlob'.kind = "blob"
               /\ upd.pc = "idle" => ret'.op = "stop" /\ ret'.h = h /\ ret'.res = recordingBlob'
     /\ ret' # ret /\ ret'.op = "stop" /\ ret'.res.kind = "blob" => recordingBlob' = ret'.res]_vars

\* C39 witness: the container of the first recording is still there while the
\* second recording, started after it, has a chunk and is paused
BlobKeptThroughNextRecording ==
  /\ recordingBlob.kind = "blob"
  /\ ret.op = "pause"
  /\ mediaRecorder = 2 /\ rec[2].state = "paused"
  /\ chunks # <<>> /\ recordingBlob.bytes # Concat(chunks)
  /\ rec[1].promise = "settled"

\* C40: on a manager configured audioOnly that holds a stream, updateStream()
\* with maintainVideo true calls no getUserMedia and stops and removes no
\* track, whatever the constraints: it goes straight to the delay and
\* resolves with the stream it found, holding the tracks it held; with
\* maintainVideo false the tracks are stopped and a new stream is asked for.
AudioOnlyUpdateDoesNothing ==
  [][/\ \A audio \in AudioWants, video \in VideoWants, maintainVideo \in BOOLEAN :
       audioOnly /\ mediaStream # 0 /\ UpdateStreamCall(audio, video, maintainVideo) =>
         LET op == ops'[Len(ops')]
         IN IF maintainVideo
              THEN /\ op.pc = "delay" /\ op.gum = <<>>
                   /\ objs' = objs /\ trk' = trk /\ mediaStream' = mediaStream
              ELSE /\ op.pc = "init" /\ op.gum = <<Request("any", "none")>>
                   /\ \A t \in TracksOf(mediaStream) : trk'[t].stopped
     /\ \A i \in 1..MaxCalls :
          /\ audioOnly /\ DelayDone(i) /\ ops[i].alone /\ ops[i].maintainVideo
               => /\ ops'[i].out = "ok" /\ ops'[i].got = ops[i].src
                  /\ ops'[i].granted = {}
                  /\ TracksOf(mediaStream') = ops[i].before
                  /\ \A t \in ops[i].live : ~trk'[t].stopped
          /\ audioOnly /\ GumSettle(i, TRUE) /\ ops[i].api = "updateStream" /\ ops[i].src # 0
               => ~ops[i].maintainVideo /\ mediaStream' # ops[i].src]_vars

\* C40 witness: an audioOnly manager with a stream has resolved an
\* updateStream() that asked for audio and a camera, maintainVideo true, with
\* the stream and the live track it had
AudioOnlyUpdateResolvedSame ==
  /\ audioOnly /\ Len(ops) = 1
  /\ ops[1].api = "updateStream" /\ ops[1].maintainVideo
  /\ ops[1].audio = "any" /\ ops[1].video = "cam2"
  /\ ops[1].out = "ok" /\ ops[1].got = mediaStream /\ mediaStream = ops[1].src
  /\ mediaStream # 0 /\ TracksOf(mediaStream) = ops[1].before
  /\ \A t \in TracksOf(mediaStream) : ~trk[t].stopped

====
